---- MODULE Spec2Model ----
(***************************************************************************)
(* State-machine model of the three batch scripts of the repository:       *)
(*   metadata.py         probe run   (ffprobe over the files of a folder)  *)
(*   video_generator.py  command-line download run (yt-dlp over URLs)      *)
(*   test.py             web download run (Streamlit + yt-dlp)             *)
(* Text is modelled as a sequence of one-character strings so that strip,  *)
(* lower, int() and float() are computed, not assumed.                     *)
(***************************************************************************)
EXTENDS Integers, Sequences, FiniteSets, TLC

VARIABLES
    prog,            \* which script is running
    pc,              \* position of main()
    items,           \* video_files (metadata.py) / urls (download scripts)
    idx,             \* enumerate() index of the last item processed
    successful,      \* counter `successful`
    failed,          \* counter `failed`
    failed_items,    \* failed_files (pairs) / failed_urls
    all_metadata,    \* metadata.py: list of parsed records
    scanned,         \* metadata.py: scan_folder_for_videos was called
    tool_calls,      \* indices of the items the external tool was run on
    sleeps,          \* time.sleep calls: <<index after which, seconds>>
    artifacts,       \* files written / downloads offered, in order
    last,            \* what the environment gave the last iteration
    preflight,       \* metadata.py: outcome of `ffprobe -version`
    in_flight,       \* indices of the items whose external tool is running
    cookie_exists,   \* test.py: temp_cookies.txt is on disk
    download_started,
    download_complete,
    headers,         \* spreadsheet: df.columns
    pattern,         \* spreadsheet: the cells of a column
    vg_read,         \* video_generator.py: result of reading the sheet
    test_read        \* test.py: result of reading the sheet

vars == <<prog, pc, items, idx, successful, failed, failed_items, all_metadata,
          scanned, tool_calls, sleeps, artifacts, last, preflight, in_flight,
          cookie_exists, download_started, download_complete, headers, pattern,
          vg_read, test_read>>

batch_vars == <<prog, pc, items, idx, successful, failed, failed_items,
                all_metadata, scanned, tool_calls, sleeps, artifacts, last,
                preflight, in_flight, cookie_exists, download_started,
                download_complete>>

sheet_vars == <<headers, pattern, vg_read, test_read>>

(***************************************************************************)
(* Bounds                                                                  *)
(***************************************************************************)
MaxItems == 3
MaxCols == 2
MaxRows == 2

(***************************************************************************)
(* Text helpers                                                            *)
(***************************************************************************)
Range(s) == {s[i] : i \in 1..Len(s)}

Min(a, b) == IF a < b THEN a ELSE b

Whitespace == {" ", "\t", "\n"}

UpperToLower ==
    [c \in {"U", "R", "L", "N", "A", "O", "E"} |->
        CASE c = "U" -> "u" [] c = "R" -> "r" [] c = "L" -> "l"
          [] c = "N" -> "n" [] c = "A" -> "a" [] c = "O" -> "o"
          [] c = "E" -> "e"]

\* str.lower()
Lower(s) ==
    [i \in 1..Len(s) |->
        IF s[i] \in DOMAIN UpperToLower THEN UpperToLower[s[i]] ELSE s[i]]

RECURSIVE LStrip(_)
LStrip(s) ==
    IF s # <<>> /\ Head(s) \in Whitespace THEN LStrip(Tail(s)) ELSE s

RECURSIVE RStrip(_)
RStrip(s) ==
    IF s # <<>> /\ s[Len(s)] \in Whitespace
    THEN RStrip(SubSeq(s, 1, Len(s) - 1))
    ELSE s

\* str.strip()
Strip(s) == RStrip(LStrip(s))

DigitVal ==
    [c \in {"0", "1", "2", "3", "4", "5", "6", "7", "8", "9"} |->
        CASE c = "0" -> 0 [] c = "1" -> 1 [] c = "2" -> 2 [] c = "3" -> 3
          [] c = "4" -> 4 [] c = "5" -> 5 [] c = "6" -> 6 [] c = "7" -> 7
          [] c = "8" -> 8 [] c = "9" -> 9]

IsDigits(s) == s # <<>> /\ \A i \in 1..Len(s) : s[i] \in DOMAIN DigitVal

RECURSIVE DigitsValue(_)
DigitsValue(s) ==
    IF s = <<>> THEN 0
    ELSE 10 * DigitsValue(SubSeq(s, 1, Len(s) - 1)) + DigitVal[s[Len(s)]]


\* int(<str>): the value, defined for decimal numerals only
IntText(s) == DigitsValue(s)

IntTextOk(s) == IsDigits(s)

\* float(<str>) is defined for digits with at most one decimal point
FloatTextOk(s) ==
    /\ \A i \in 1..Len(s) : s[i] \in DOMAIN DigitVal \/ s[i] = "."
    /\ Cardinality({i \in 1..Len(s) : s[i] = "."}) <= 1
    /\ \E i \in 1..Len(s) : s[i] \in DOMAIN DigitVal

RECURSIVE Pow10(_)
Pow10(n) == IF n = 0 THEN 1 ELSE 10 * Pow10(n - 1)

\* round(a / b, 0) with ties to even, as Python's round()
RoundHalfEven(a, b) ==
    LET q == a \div b
        r == a % b
    IN  IF 2 * r < b THEN q
        ELSE IF 2 * r > b THEN q + 1
        ELSE IF q % 2 = 0 THEN q ELSE q + 1

\* round(float(s), 2), in hundredths
RoundedFloatText(s) ==
    LET dots == {i \in 1..Len(s) : s[i] = "."}
        digits == SelectSeq(s, LAMBDA c : c # ".")
        fracLen == IF dots = {} THEN 0 ELSE Len(s) - (CHOOSE i \in dots : TRUE)
    IN  RoundHalfEven(DigitsValue(digits) * 100, Pow10(fracLen))

(***************************************************************************)
(* Python values that cross function boundaries                            *)
(***************************************************************************)
None == [kind |-> "none"]

Dict(d) == [kind |-> "dict", d |-> d]

Num(n) == [kind |-> "num", n |-> n]

EmptyDict == [x \in {} |-> 0]

\* bool(v)
Truthy(v) ==
    CASE v.kind = "none" -> FALSE
      [] v.kind = "dict" -> DOMAIN v.d # {}
      [] v.kind = "num" -> v.n # 0

Returned(v) == [raised |-> FALSE, value |-> v]

Raised == [raised |-> TRUE, value |-> None]

\* dict.get(k, default)
Get(d, k, default) == IF k \in DOMAIN d THEN d[k] ELSE default

(***************************************************************************)
(* metadata.py                                                             *)
(***************************************************************************)
VersionOutcomes == {"ok", "nonzero", "notfound"}

check_ignores_exit_code(v) == v # "notfound"

\* check_ffprobe_installed: True only when `ffprobe -version` exits 0
check_ffprobe_installed(v) == v = "ok"

FullFormat ==
    [size |-> <<"1", "3", "1", "0", "7", "2">>,
     duration |-> <<"6", "5", ".", "4", "3">>,
     format_name |-> "matroska,webm",
     format_long_name |-> "Matroska / WebM",
     bit_rate |-> <<"1", "6", "0", "0">>]

VideoStream ==
    [codec_type |-> "video", codec_name |-> "h264",
     codec_long_name |-> "H.264", width |-> 1920, height |-> 1080,
     r_frame_rate |-> "30/1", display_aspect_ratio |-> "16:9",
     pix_fmt |-> "yuv420p", bit_rate |-> "1400"]

AudioStream ==
    [codec_type |-> "audio", codec_name |-> "aac",
     codec_long_name |-> "AAC", channels |-> 2, channel_layout |-> "stereo",
     sample_rate |-> "44100", bit_rate |-> "128"]

\* stdout of the probing tool: empty, or text that json.loads accepts or not
NoStdout == [empty |-> TRUE, valid |-> FALSE, json |-> None]

BadStdout == [empty |-> FALSE, valid |-> FALSE, json |-> None]

Json(v) == [empty |-> FALSE, valid |-> TRUE, json |-> v]

Completed(rc, out) == [raised |-> FALSE, returncode |-> rc, stdout |-> out]

\* the results subprocess.run can hand to extract_video_metadata
ProbeOutputs ==
    << [raised |-> TRUE, returncode |-> 0, stdout |-> NoStdout],
       Completed(1, NoStdout),
       Completed(1, Json(Dict([format |-> FullFormat]))),
       Completed(0, NoStdout),
       Completed(0, BadStdout),
       Completed(0, Json(Dict(EmptyDict))),
       Completed(0, Json(Num(5))),
       Completed(0, Json(Dict([format |->
           [size |-> <<"N", "/", "A">>, duration |-> <<"1">>]]))),
       Completed(0, Json(Dict([format |->
           [size |-> <<"1", "0">>, duration |-> <<"N", "/", "A">>]]))),
       Completed(0, Json(Dict([format |-> EmptyDict]))),
       Completed(0, Json(Dict([streams |->
           << [codec_type |-> "video"], [codec_type |-> "audio"] >>]))),
       Completed(0, Json(Dict([format |-> FullFormat, streams |->
           << [codec_type |-> "subtitle"], AudioStream, VideoStream,
              [codec_type |-> "video", codec_name |-> "mjpeg"] >>]))) >>

\* json.loads(result.stdout)
json_loads(out) == IF out.valid THEN Returned(out.json) ELSE Raised

extract_no_decode_handler(res) ==
    IF res.raised THEN Returned(None)
    ELSE IF res.returncode = 0 /\ ~res.stdout.empty
         THEN json_loads(res.stdout)
         ELSE Returned(None)

\* extract_video_metadata: the parsed JSON, or None; every exception is caught
extract_video_metadata(res) ==
    IF res.raised THEN Returned(None)
    ELSE IF res.returncode = 0 /\ ~res.stdout.empty
         THEN IF json_loads(res.stdout).raised
              THEN Returned(None)
              ELSE json_loads(res.stdout)
         ELSE Returned(None)


\* os.path.basename / Path.name of a path <<folder, name>>
basename(filepath) == filepath[2]

\* datetime.now(), formatted; the clock is not modelled
Timestamp == "now"

\* f"{w}x{h}"
Resolution(w, h) == ToString(w) \o "x" \o ToString(h)

\* lines 78-107: the record before any key is read
DefaultParsed(filepath) ==
    [filepath |-> filepath, filename |-> basename(filepath),
     file_size_bytes |-> 0, file_size_mb |-> 0, duration_seconds |-> 0,
     format_name |-> "", format_long_name |-> "", bit_rate |-> 0,
     video_codec |-> "", video_codec_long |-> "", resolution |-> "",
     width |-> 0, height |-> 0, frame_rate |-> "", aspect_ratio |-> "",
     pixel_format |-> "", video_bitrate |-> "", audio_codec |-> "",
     audio_codec_long |-> "", audio_channels |-> 0,
     audio_channel_layout |-> "", audio_sample_rate |-> "",
     audio_bitrate |-> "", has_video |-> FALSE, has_audio |-> FALSE,
     has_subtitles |-> FALSE, subtitle_count |-> 0,
     extraction_timestamp |-> Timestamp]

\* lines 110-117: int() and float() raise ValueError on non-numeric text
FormatRaises(fmt) ==
    \/ "size" \in DOMAIN fmt /\ ~IntTextOk(fmt.size)
    \/ "duration" \in DOMAIN fmt /\ ~FloatTextOk(fmt.duration)
    \/ "bit_rate" \in DOMAIN fmt /\ ~IntTextOk(fmt.bit_rate)

\* lines 110-117; file_size_mb and duration_seconds are in hundredths
ParseFormat(parsed, fmt) ==
    LET size == IF "size" \in DOMAIN fmt THEN IntText(fmt.size) ELSE 0
    IN  [parsed EXCEPT
            !.file_size_bytes = size,
            !.file_size_mb = RoundHalfEven(size * 100, 1024 * 1024),
            !.duration_seconds =
                IF "duration" \in DOMAIN fmt
                THEN RoundedFloatText(fmt.duration) ELSE 0,
            !.format_name = Get(fmt, "format_name", ""),
            !.format_long_name = Get(fmt, "format_long_name", ""),
            !.bit_rate =
                IF "bit_rate" \in DOMAIN fmt THEN IntText(fmt.bit_rate) ELSE 0]

StreamsOfType(streams, t) ==
    SelectSeq(streams, LAMBDA st : Get(st, "codec_type", "") = t)

\* lines 141-151
ParseVideo(parsed, video) ==
    [parsed EXCEPT
        !.video_codec = Get(video, "codec_name", ""),
        !.video_codec_long = Get(video, "codec_long_name", ""),
        !.width = Get(video, "width", 0),
        !.height = Get(video, "height", 0),
        !.resolution = Resolution(Get(video, "width", 0), Get(video, "height", 0)),
        !.frame_rate = Get(video, "r_frame_rate", ""),
        !.aspect_ratio = Get(video, "display_aspect_ratio", ""),
        !.pixel_format = Get(video, "pix_fmt", ""),
        !.video_bitrate = Get(video, "bit_rate", "N/A")]

\* lines 154-161
ParseAudio(parsed, audio) ==
    [parsed EXCEPT
        !.audio_codec = Get(audio, "codec_name", ""),
        !.audio_codec_long = Get(audio, "codec_long_name", ""),
        !.audio_channels = Get(audio, "channels", 0),
        !.audio_channel_layout = Get(audio, "channel_layout", ""),
        !.audio_sample_rate = Get(audio, "sample_rate", ""),
        !.audio_bitrate = Get(audio, "bit_rate", "N/A")]

\* lines 120-161
ParseStreams(parsed, streams) ==
    LET video_streams == StreamsOfType(streams, "video")
        audio_streams == StreamsOfType(streams, "audio")
        subtitle_count == Len(StreamsOfType(streams, "subtitle"))
        p1 == [parsed EXCEPT
                  !.has_video = video_streams # <<>>,
                  !.has_audio = audio_streams # <<>>,
                  !.has_subtitles = subtitle_count > 0,
                  !.subtitle_count = subtitle_count]
        p2 == IF video_streams # <<>>
              THEN ParseVideo(p1, video_streams[1]) ELSE p1
    IN  IF audio_streams # <<>> THEN ParseAudio(p2, audio_streams[1]) ELSE p2

\* parse_metadata: None for a falsy input, the flat record otherwise; raises
\* TypeError when the JSON value is no container and ValueError from int()
\* or float()
parse_metadata(raw_metadata, filepath) ==
    IF ~Truthy(raw_metadata) THEN Returned(None)
    ELSE IF raw_metadata.kind # "dict" THEN Raised
    ELSE LET raw == raw_metadata.d
             p0 == DefaultParsed(filepath)
         IN  IF "format" \in DOMAIN raw /\ FormatRaises(raw.format)
             THEN Raised
             ELSE LET p1 == IF "format" \in DOMAIN raw
                            THEN ParseFormat(p0, raw.format) ELSE p0
                      p2 == IF "streams" \in DOMAIN raw
                            THEN ParseStreams(p1, raw.streams) ELSE p1
                  IN  Returned(Dict(p2))

RECURSIVE SortedSeq(_)
SortedSeq(S) ==
    IF S = {} THEN <<>>
    ELSE LET m == CHOOSE x \in S : \A y \in S : x <= y
         IN  <<m>> \o SortedSeq(S \ {m})

VideoFolder == "Downloaded_Videos"

\* scan_folder_for_videos: [] for a missing folder, else the matches of the
\* lower-case and upper-case globs, deduplicated by the set and sorted
scan_folder_for_videos(folder_exists, lower_matches, upper_matches) ==
    IF ~folder_exists THEN <<>>
    ELSE LET names == SortedSeq(lower_matches \cup upper_matches)
         IN  [i \in 1..Len(names) |-> <<VideoFolder, names[i]>>]


existence_unchecked(exists) == FALSE

\* line 238: `if not video_path.exists()`
file_missing(exists) == ~exists

\* lines 234-268: one iteration of the probe loop on video_files[i]; an
\* exception that leaves extract_video_metadata or parse_metadata leaves
\* main, since the loop has no handler
ProbeIteration(i, video_path, exists, res) ==
    LET filename == basename(video_path)
        cur == [pc |-> "loop", successful |-> successful, failed |-> failed,
                failed_items |-> failed_items, all_metadata |-> all_metadata,
                tool_calls |-> tool_calls]
        called == [cur EXCEPT !.tool_calls = Append(tool_calls, i)]
        fail(st, reason) ==
            [st EXCEPT !.failed = failed + 1,
                       !.failed_items = Append(failed_items, <<filename, reason>>)]
        raw == extract_video_metadata(res)
        parsed == parse_metadata(raw.value, video_path)
    IN  IF file_missing(exists) THEN fail(cur, "File not found")
        ELSE IF raw.raised THEN [called EXCEPT !.pc = "crashed"]
        ELSE IF Truthy(raw.value)
             THEN IF parsed.raised THEN [called EXCEPT !.pc = "crashed"]
                  ELSE IF Truthy(parsed.value)
                       THEN [called EXCEPT
                                !.all_metadata = Append(all_metadata, parsed.value.d),
                                !.successful = successful + 1]
                       ELSE fail(called, "Failed to parse metadata")
             ELSE fail(called, "Failed to extract metadata")

ExcelRow_path_first(meta) ==
    << <<"File Path", meta.filepath>>,
       <<"Format", meta.format_long_name>>,
       <<"Duration (seconds)", meta.duration_seconds>>,
       <<"Size (MB)", meta.file_size_mb>>,
       <<"Resolution", meta.resolution>>,
       <<"Width", meta.width>>,
       <<"Height", meta.height>>,
       <<"Video Codec", meta.video_codec>>,
       <<"Frame Rate", meta.frame_rate>>,
       <<"Aspect Ratio", meta.aspect_ratio>>,
       <<"Audio Codec", meta.audio_codec>>,
       <<"Audio Channels", meta.audio_channels>>,
       <<"Sample Rate", meta.audio_sample_rate>>,
       <<"Has Subtitles", meta.has_subtitles>>,
       <<"Subtitle Count", meta.subtitle_count>>,
       <<"Extraction Time", meta.extraction_timestamp>>,
       <<"Filename", meta.filename>> >>

\* lines 282-300: one spreadsheet row, as <<column header, value>> pairs
ExcelRow(meta) ==
    << <<"Filename", meta.filename>>,
       <<"Format", meta.format_long_name>>,
       <<"Duration (seconds)", meta.duration_seconds>>,
       <<"Size (MB)", meta.file_size_mb>>,
       <<"Resolution", meta.resolution>>,
       <<"Width", meta.width>>,
       <<"Height", meta.height>>,
       <<"Video Codec", meta.video_codec>>,
       <<"Frame Rate", meta.frame_rate>>,
       <<"Aspect Ratio", meta.aspect_ratio>>,
       <<"Audio Codec", meta.audio_codec>>,
       <<"Audio Channels", meta.audio_channels>>,
       <<"Sample Rate", meta.audio_sample_rate>>,
       <<"Has Subtitles", meta.has_subtitles>>,
       <<"Subtitle Count", meta.subtitle_count>>,
       <<"Extraction Time", meta.extraction_timestamp>>,
       <<"File Path", meta.filepath>> >>

Artifact(name, content) == [name |-> name, content |-> content]

failure_log_always(failed_list) == TRUE

\* lines 320, 144 (video_generator.py), 372 (test.py): `if failed_files:`
failure_log_due(failed_list) == failed_list # <<>>

\* lines 270-333: the artifacts the probe run writes after the loop
ProbeReports(metadata, failed_files) ==
    IF metadata # <<>>
    THEN << Artifact("json", metadata),
            Artifact("xlsx", [i \in 1..Len(metadata) |-> ExcelRow(metadata[i])]) >>
         \o (IF failure_log_due(failed_files)
             THEN << Artifact("failed_log", failed_files) >>
             ELSE <<>>)
    ELSE <<>>

NoLast == [i |-> 0, exists |-> FALSE, out |-> 0, ret |-> <<>>]

enumerate_repeats(i) == IF i = 0 THEN 1 ELSE i

\* `for idx, ... in enumerate(..., 1)`: the index that follows idx
enumerate_next(i) == i + 1

\* lines 190-194
Preflight ==
    /\ prog = "metadata" /\ pc = "start"
    /\ \E v \in VersionOutcomes :
          /\ preflight' = v
          /\ pc' = IF check_ffprobe_installed(v) THEN "scan" ELSE "exit"
    /\ UNCHANGED <<prog, items, idx, successful, failed, failed_items,
                   all_metadata, scanned, tool_calls, sleeps, artifacts, last,
                   cookie_exists, download_started, download_complete>>
    /\ UNCHANGED <<in_flight, sheet_vars>>

\* lines 198-226
Scan ==
    /\ prog = "metadata" /\ pc = "scan"
    /\ \E folder_exists \in BOOLEAN, lo \in SUBSET (1..MaxItems),
          up \in SUBSET (1..MaxItems) :
          /\ items' = scan_folder_for_videos(folder_exists, lo, up)
          /\ pc' = IF items' = <<>> THEN "exit" ELSE "loop"
    /\ scanned' = TRUE
    /\ UNCHANGED <<prog, idx, successful, failed, failed_items, all_metadata,
                   tool_calls, sleeps, artifacts, last, preflight,
                   cookie_exists, download_started, download_complete>>
    /\ UNCHANGED <<in_flight, sheet_vars>>

\* lines 234-245: the loop takes the next file; a missing file is recorded
\* and the iteration is over, otherwise ffprobe is started (subprocess.run
\* blocks until it ends)
ProbeInvoke ==
    /\ prog = "metadata" /\ pc = "loop" /\ idx < Len(items)
    /\ \E exists \in BOOLEAN :
          LET i == enumerate_next(idx)
              st == ProbeIteration(i, items[i], exists, ProbeOutputs[1])
          IN  IF file_missing(exists)
              THEN /\ pc' = st.pc
                   /\ failed' = st.failed
                   /\ failed_items' = st.failed_items
                   /\ idx' = i
                   /\ last' = [i |-> i, exists |-> exists, out |-> 0,
                               ret |-> <<FALSE>>]
                   /\ UNCHANGED in_flight
              ELSE /\ pc' = "running"
                   /\ in_flight' = in_flight \cup {i}
                   /\ last' = [i |-> i, exists |-> exists, out |-> 0,
                               ret |-> <<>>]
                   /\ UNCHANGED <<failed, failed_items, idx>>
    /\ UNCHANGED <<prog, items, successful, all_metadata, scanned, tool_calls,
                   sleeps, artifacts, preflight, cookie_exists,
                   download_started, download_complete>>
    /\ UNCHANGED sheet_vars

\* lines 245-268: ffprobe has ended; the rest of the iteration
ProbeItem ==
    /\ prog = "metadata" /\ pc = "running"
    /\ \E k \in DOMAIN ProbeOutputs :
          LET i == enumerate_next(idx)
              st == ProbeIteration(i, items[i], last.exists, ProbeOutputs[k])
          IN  /\ pc' = st.pc
              /\ successful' = st.successful
              /\ failed' = st.failed
              /\ failed_items' = st.failed_items
              /\ all_metadata' = st.all_metadata
              /\ tool_calls' = st.tool_calls
              /\ last' = [last EXCEPT !.out = k,
                                      !.ret = <<st.successful > successful>>]
              /\ in_flight' = in_flight \ {i}
              /\ idx' = i
    /\ UNCHANGED <<prog, items, scanned, sleeps, artifacts, preflight,
                   cookie_exists, download_started, download_complete>>
    /\ UNCHANGED sheet_vars

\* lines 270-335
SaveResults ==
    /\ prog = "metadata" /\ pc = "loop" /\ idx = Len(items)
    /\ artifacts' = artifacts \o ProbeReports(all_metadata, failed_items)
    /\ pc' = "done"
    /\ UNCHANGED <<prog, items, idx, successful, failed, failed_items,
                   all_metadata, scanned, tool_calls, sleeps, last, preflight,
                   cookie_exists, download_started, download_complete>>
    /\ UNCHANGED <<in_flight, sheet_vars>>


(***************************************************************************)
(* video_generator.py and test.py: the download runs                       *)
(***************************************************************************)
Ran(rc, err) == [raised |-> FALSE, text |-> "", returncode |-> rc, stderr |-> err]

\* what subprocess.run(['yt-dlp', ...]) can do: exit 0, exit non-zero with
\* or without text on stderr, or raise (text: str(e), which is empty for an
\* exception built without arguments)
DownloadOutcomes ==
    << Ran(0, ""),
       Ran(1, "ERROR: Video unavailable"),
       Ran(1, ""),
       [raised |-> TRUE, text |-> "[Errno 2] No such file or directory: 'yt-dlp'",
        returncode |-> 0, stderr |-> ""],
       [raised |-> TRUE, text |-> "", returncode |-> 0, stderr |-> ""] >>

\* video_generator.py download_video, lines 8-39
vg_download_video(cookie_ok, res) ==
    IF ~cookie_ok THEN FALSE
    ELSE IF res.raised THEN FALSE
    ELSE res.returncode = 0

test_download_no_fallback(cookie_ok, res) ==
    IF ~cookie_ok THEN <<FALSE, "Cookie file not found">>
    ELSE IF res.raised THEN <<FALSE, res.text>>
    ELSE IF res.returncode = 0 THEN <<TRUE, "Success">>
    ELSE <<FALSE, res.stderr>>

\* test.py download_video, lines 149-174: (success, message)
test_download_video(cookie_ok, res) ==
    IF ~cookie_ok THEN <<FALSE, "Cookie file not found">>
    ELSE IF res.raised THEN <<FALSE, res.text>>
    ELSE IF res.returncode = 0 THEN <<TRUE, "Success">>
    ELSE <<FALSE, IF res.stderr # "" THEN res.stderr ELSE "Unknown error">>

VgWaitTime == 3

WebWaitTime == 2

delay_after_all(i, n) == TRUE

\* video_generator.py line 129, test.py line 334: `if idx < len(urls)`
delay_due(i, n) == i < n

\* the URL lists a spreadsheet can yield; a URL's text is abstracted to an id
UrlLists == UNION {[1..n -> 1..MaxItems] : n \in 0..MaxItems}

\* video_generator.py lines 56-100: cookie check, then the spreadsheet is
\* read; an exception while reading is caught by the handlers of lines
\* 152-157 and ends main
VgStart ==
    /\ prog = "video_generator" /\ pc = "start"
    /\ \E cookie_ok \in BOOLEAN, read_ok \in BOOLEAN, urls \in UrlLists :
          IF cookie_ok /\ read_ok
          THEN items' = urls /\ pc' = "loop"
          ELSE items' = items /\ pc' = "exit"
    /\ UNCHANGED <<prog, idx, successful, failed, failed_items, all_metadata,
                   scanned, tool_calls, sleeps, artifacts, last, preflight,
                   cookie_exists, download_started, download_complete>>
    /\ UNCHANGED <<in_flight, sheet_vars>>

\* video_generator.py lines 118-132, test.py lines 313-335: the counters,
\* the failure list and the delay after download_video has returned
DownloadIteration(i, ok, wait) ==
    [successful |-> IF ok THEN successful + 1 ELSE successful,
     failed |-> IF ok THEN failed ELSE failed + 1,
     failed_items |-> IF ok THEN failed_items ELSE Append(failed_items, items[i]),
     sleeps |-> IF delay_due(i, Len(items))
                THEN Append(sleeps, <<i, wait>>) ELSE sleeps]

\* video_generator.py lines 106-118 and 8-30: the loop takes the next URL and
\* calls download_video; without the cookie file it returns False at once,
\* otherwise yt-dlp is started (subprocess.run blocks until it ends)
VgInvoke ==
    /\ prog = "video_generator" /\ pc = "loop" /\ idx < Len(items)
    /\ \E cookie_ok \in BOOLEAN :
          LET i == enumerate_next(idx)
              ok == vg_download_video(cookie_ok, DownloadOutcomes[1])
              st == DownloadIteration(i, ok, VgWaitTime)
          IN  IF ~cookie_ok
              THEN /\ successful' = st.successful
                   /\ failed' = st.failed
                   /\ failed_items' = st.failed_items
                   /\ sleeps' = st.sleeps
                   /\ idx' = i
                   /\ last' = [i |-> i, exists |-> cookie_ok, out |-> 0,
                               ret |-> <<ok>>]
                   /\ UNCHANGED <<pc, in_flight>>
              ELSE /\ pc' = "running"
                   /\ in_flight' = in_flight \cup {i}
                   /\ last' = [i |-> i, exists |-> cookie_ok, out |-> 0,
                               ret |-> <<>>]
                   /\ UNCHANGED <<successful, failed, failed_items, sleeps, idx>>
    /\ UNCHANGED <<prog, items, all_metadata, scanned, tool_calls, artifacts,
                   preflight, cookie_exists, download_started,
                   download_complete>>
    /\ UNCHANGED sheet_vars

\* video_generator.py lines 30-39 and 118-132: yt-dlp has ended; the rest of
\* the iteration
VgDownloadItem ==
    /\ prog = "video_generator" /\ pc = "running"
    /\ \E k \in DOMAIN DownloadOutcomes :
          LET i == enumerate_next(idx)
              ok == vg_download_video(last.exists, DownloadOutcomes[k])
              st == DownloadIteration(i, ok, VgWaitTime)
          IN  /\ tool_calls' = Append(tool_calls, i)
              /\ successful' = st.successful
              /\ failed' = st.failed
              /\ failed_items' = st.failed_items
              /\ sleeps' = st.sleeps
              /\ last' = [last EXCEPT !.out = k, !.ret = <<ok>>]
              /\ in_flight' = in_flight \ {i}
              /\ idx' = i
    /\ pc' = "loop"
    /\ UNCHANGED <<prog, items, all_metadata, scanned, artifacts, preflight,
                   cookie_exists, download_started, download_complete>>
    /\ UNCHANGED sheet_vars

\* video_generator.py lines 148-149, test.py line 375: one line per failed
\* URL, holding the URL alone
UrlLines(failed_urls) == [i \in 1..Len(failed_urls) |-> <<failed_urls[i]>>]

\* video_generator.py lines 134-150
VgSummary ==
    /\ prog = "video_generator" /\ pc = "loop" /\ idx = Len(items)
    /\ artifacts' = IF failure_log_due(failed_items)
                    THEN Append(artifacts, Artifact("failed_log", UrlLines(failed_items)))
                    ELSE artifacts
    /\ pc' = "done"
    /\ UNCHANGED <<prog, items, idx, successful, failed, failed_items,
                   all_metadata, scanned, tool_calls, sleeps, last, preflight,
                   cookie_exists, download_started, download_complete>>
    /\ UNCHANGED <<in_flight, sheet_vars>>

\* test.py lines 244-284: one run of the Streamlit script up to the button;
\* with both uploads present the cookie upload is written to temp_cookies.txt
\* and the spreadsheet is read (an exception is caught at line 391)
WebRun ==
    /\ prog = "test" /\ pc = "start"
    /\ \E uploaded \in BOOLEAN, read_ok \in BOOLEAN, urls \in UrlLists :
          /\ cookie_exists' = (uploaded \/ cookie_exists)
          /\ IF uploaded /\ read_ok
             THEN items' = urls /\ pc' = "ready"
             ELSE items' = items /\ pc' = "exit"
    /\ UNCHANGED <<prog, idx, successful, failed, failed_items, all_metadata,
                   scanned, tool_calls, sleeps, artifacts, last, preflight,
                   download_started, download_complete>>
    /\ UNCHANGED <<in_flight, sheet_vars>>

\* test.py line 286: the button was not pressed in this run of the script
WebIdle ==
    /\ prog = "test" /\ pc = "ready"
    /\ pc' = "exit"
    /\ UNCHANGED <<prog, items, idx, successful, failed, failed_items,
                   all_metadata, scanned, tool_calls, sleeps, artifacts, last,
                   preflight, cookie_exists, download_started, download_complete>>
    /\ UNCHANGED <<in_flight, sheet_vars>>

\* test.py lines 286-305
WebStart ==
    /\ prog = "test" /\ pc = "ready"
    /\ download_started' = TRUE
    /\ download_complete' = FALSE
    /\ pc' = "loop"
    /\ UNCHANGED <<prog, items, idx, successful, failed, failed_items,
                   all_metadata, scanned, tool_calls, sleeps, artifacts, last,
                   preflight, cookie_exists>>
    /\ UNCHANGED <<in_flight, sheet_vars>>

\* test.py lines 307-311 and 149-166: the loop takes the next URL and calls
\* download_video; without temp_cookies.txt it returns at once, otherwise
\* yt-dlp is started (subprocess.run blocks until it ends)
WebInvoke ==
    /\ prog = "test" /\ pc = "loop" /\ idx < Len(items)
    /\ LET i == enumerate_next(idx)
           r == test_download_video(cookie_exists, DownloadOutcomes[1])
           st == DownloadIteration(i, r[1], WebWaitTime)
       IN  IF ~cookie_exists
           THEN /\ successful' = st.successful
                /\ failed' = st.failed
                /\ failed_items' = st.failed_items
                /\ sleeps' = st.sleeps
                /\ idx' = i
                /\ last' = [i |-> i, exists |-> cookie_exists, out |-> 0,
                            ret |-> r]
                /\ UNCHANGED <<pc, in_flight>>
           ELSE /\ pc' = "running"
                /\ in_flight' = in_flight \cup {i}
                /\ last' = [i |-> i, exists |-> cookie_exists, out |-> 0,
                            ret |-> <<>>]
                /\ UNCHANGED <<successful, failed, failed_items, sleeps, idx>>
    /\ UNCHANGED <<prog, items, all_metadata, scanned, tool_calls, artifacts,
                   preflight, cookie_exists, download_started,
                   download_complete>>
    /\ UNCHANGED sheet_vars

\* test.py lines 166-174 and 313-335: yt-dlp has ended; the rest of the
\* iteration
WebDownloadItem ==
    /\ prog = "test" /\ pc = "running"
    /\ \E k \in DOMAIN DownloadOutcomes :
          LET i == enumerate_next(idx)
              r == test_download_video(last.exists, DownloadOutcomes[k])
              st == DownloadIteration(i, r[1], WebWaitTime)
          IN  /\ tool_calls' = Append(tool_calls, i)
              /\ successful' = st.successful
              /\ failed' = st.failed
              /\ failed_items' = st.failed_items
              /\ sleeps' = st.sleeps
              /\ last' = [last EXCEPT !.out = k, !.ret = r]
              /\ in_flight' = in_flight \ {i}
              /\ idx' = i
    /\ pc' = "loop"
    /\ UNCHANGED <<prog, items, all_metadata, scanned, artifacts, preflight,
                   cookie_exists, download_started, download_complete>>
    /\ UNCHANGED sheet_vars

\* test.py lines 337-389
WebFinish ==
    /\ prog = "test" /\ pc = "loop" /\ idx = Len(items)
    /\ download_complete' = TRUE
    /\ artifacts' = IF failure_log_due(failed_items)
                    THEN Append(artifacts,
                                Artifact("failed_urls_download",
                                         UrlLines(failed_items)))
                    ELSE artifacts
    /\ cookie_exists' = FALSE
    /\ pc' = "done"
    /\ UNCHANGED <<prog, items, idx, successful, failed, failed_items,
                   all_metadata, scanned, tool_calls, sleeps, last, preflight,
                   download_started>>
    /\ UNCHANGED <<in_flight, sheet_vars>>

(***************************************************************************)
(* The batch runs                                                          *)
(***************************************************************************)
Programs == {"metadata", "video_generator", "test"}

SheetIdle ==
    /\ headers = <<>>
    /\ pattern = <<>>
    /\ vg_read = [done |-> FALSE, columns |-> <<>>, urls |-> <<>>]
    /\ test_read = [done |-> FALSE, column |-> 0, urls |-> <<>>]

BatchInit(p) ==
    /\ prog = p
    /\ pc = "start"
    /\ items = <<>>
    /\ idx = 0
    /\ successful = 0
    /\ failed = 0
    /\ failed_items = <<>>
    /\ all_metadata = <<>>
    /\ scanned = FALSE
    /\ tool_calls = <<>>
    /\ sleeps = <<>>
    /\ artifacts = <<>>
    /\ last = NoLast
    /\ preflight = "none"
    /\ in_flight = {}
    /\ cookie_exists = FALSE
    /\ download_started = FALSE
    /\ download_complete = FALSE

Init == (\E p \in Programs : BatchInit(p)) /\ SheetIdle

Next ==
    \/ Preflight
    \/ Scan
    \/ ProbeInvoke
    \/ ProbeItem
    \/ SaveResults
    \/ VgStart
    \/ VgInvoke
    \/ VgDownloadItem
    \/ VgSummary
    \/ WebRun
    \/ WebIdle
    \/ WebStart
    \/ WebInvoke
    \/ WebDownloadItem
    \/ WebFinish

Spec == Init /\ [][Next]_vars


(***************************************************************************)
(* Reading the spreadsheet (video_generator.py lines 78-94, test.py lines  *)
(* 254-264). A cell of the DataFrame is text or a missing value (NaN);     *)
(* read_excel has already turned empty cells into NaN.                     *)
(***************************************************************************)
Text(s) == [t |-> "str", s |-> s]

Missing == [t |-> "nan", s |-> <<>>]

UrlText == <<"u", "r", "l">>

HeaderPool ==
    { <<"U", "R", "L">>, UrlText, <<"U", "r", "l">>,
      <<" ", "u", "r", "l", " ">>, <<"i", "d">> }

\* "#" stands for the number of the column the cell is in
CellPool ==
    { Text(<<"h", "#">>), Text(<<" ", "h", "#", " ">>), Text(<<" ">>),
      Text(<<"n", "o", "n", "e">>), Text(<<"N", "A", "N">>), Missing }

\* df.columns: pandas keeps the labels of a sheet distinct
HeaderRows ==
    {h \in UNION {[1..n -> HeaderPool] : n \in 1..MaxCols} :
        \A i, j \in 1..Len(h) : h[i] = h[j] => i = j}

Patterns == UNION {[1..n -> CellPool] : n \in 0..MaxRows}

\* the cells of column j of the sheet
ColumnCells(pat, j) ==
    [i \in 1..Len(pat) |->
        [pat[i] EXCEPT !.s = [k \in 1..Len(pat[i].s) |->
            IF pat[i].s[k] = "#" THEN ToString(j) ELSE pat[i].s[k]]]]

\* str(u)
Str(cell) == cell.s

StopWords == {<<>>, <<"n", "a", "n">>, <<"n", "o", "n", "e">>}

\* video_generator.py line 93
vg_keeps(u) == u.t = "str" /\ Lower(Strip(u.s)) \notin StopWords

\* video_generator.py lines 80-87: the labels are stripped and lower-cased,
\* then 'url' is looked up, else the first label; the result is every column
\* that carries the chosen label
vg_columns(hdr) ==
    LET cols == [i \in 1..Len(hdr) |-> Lower(Strip(hdr[i]))]
        url_column == IF UrlText \in Range(cols) THEN UrlText ELSE cols[1]
    IN  SortedSeq({i \in 1..Len(hdr) : cols[i] = url_column})

\* iterating df[url_column]: the cells of a Series, or the labels of a
\* DataFrame when several columns carry the label
vg_iterated(hdr, pat) ==
    LET sel == vg_columns(hdr)
    IN  IF Len(sel) = 1 THEN ColumnCells(pat, sel[1])
        ELSE [i \in 1..Len(sel) |-> Text(Lower(Strip(hdr[sel[i]])))]

\* video_generator.py lines 90-94
vg_urls(hdr, pat) ==
    LET kept == SelectSeq(vg_iterated(hdr, pat), vg_keeps)
    IN  [i \in 1..Len(kept) |-> Strip(Str(kept[i]))]

IndexOf(hdr, label) == CHOOSE i \in 1..Len(hdr) : hdr[i] = label

\* test.py lines 257-262
test_column(hdr) ==
    IF <<"U", "R", "L">> \in Range(hdr) THEN IndexOf(hdr, <<"U", "R", "L">>)
    ELSE IF UrlText \in Range(hdr) THEN IndexOf(hdr, UrlText)
    ELSE 1

\* test.py lines 258-264: dropna(), then str(url).strip()
test_urls(hdr, pat) ==
    LET kept == SelectSeq(ColumnCells(pat, test_column(hdr)),
                          LAMBDA u : u.t # "nan")
    IN  [i \in 1..Len(kept) |-> Strip(Str(kept[i]))]

VgReadSheet ==
    /\ prog = "sheet" /\ ~vg_read.done
    /\ vg_read' = [done |-> TRUE, columns |-> vg_columns(headers),
                   urls |-> vg_urls(headers, pattern)]
    /\ UNCHANGED <<headers, pattern, test_read>>
    /\ UNCHANGED batch_vars

TestReadSheet ==
    /\ prog = "sheet" /\ ~test_read.done
    /\ test_read' = [done |-> TRUE, column |-> test_column(headers),
                     urls |-> test_urls(headers, pattern)]
    /\ UNCHANGED <<headers, pattern, vg_read>>
    /\ UNCHANGED batch_vars

SheetInit ==
    /\ BatchInit("sheet")
    /\ headers \in HeaderRows
    /\ pattern \in Patterns
    /\ vg_read = [done |-> FALSE, columns |-> <<>>, urls |-> <<>>]
    /\ test_read = [done |-> FALSE, column |-> 0, urls |-> <<>>]

SheetNext == VgReadSheet \/ TestReadSheet

SpecSheet == SheetInit /\ [][SheetNext]_vars


(***************************************************************************)
(* Properties                                                              *)
(***************************************************************************)
BatchRun == prog \in Programs

RunEnded == pc \in {"done", "crashed"}

\* the entries the run has recorded: metadata.py keeps a record per success
\* and a pair per failure, the download scripts count successes and list
\* the failed URLs
ResultCount ==
    IF prog = "metadata" THEN Len(all_metadata) + Len(failed_items)
    ELSE successful + Len(failed_items)

RECURSIVE IsSubseq(_, _)
IsSubseq(a, b) ==
    IF a = <<>> THEN TRUE
    ELSE IF b = <<>> THEN FALSE
    ELSE IF Head(a) = Head(b) THEN IsSubseq(Tail(a), Tail(b))
    ELSE IsSubseq(a, Tail(b))

ItemIds ==
    IF prog = "metadata" THEN [i \in 1..Len(items) |-> basename(items[i])]
    ELSE items

FailedIds ==
    IF prog = "metadata" THEN [i \in 1..Len(failed_items) |-> failed_items[i][1]]
    ELSE failed_items

HasArtifact(names) == \E i \in 1..Len(artifacts) : artifacts[i].name \in names

FailureLogs == {"failed_log", "failed_urls_download"}

\* C1: when a batch run ends, the recorded results number exactly one per
\* input item, failed items included, and keep the input order.
C1_OneResultPerItem ==
    (BatchRun /\ RunEnded) =>
        /\ ResultCount = Len(items)
        /\ IsSubseq(FailedIds, ItemIds)

\* C2: no exception raised while an item is processed aborts the batch: a run
\* that has ended has processed every item and reached its end-of-run
\* reports.
C2_NoItemAbortsBatch ==
    (BatchRun /\ RunEnded) => (pc = "done" /\ idx = Len(items))

\* C3: a run that ends with at least one failed item has written a failure
\* log with one entry per failed item, in order, naming the item; in the
\* probe run, whose failures carry a reason, the entry holds that reason.
C3_FailuresLogged ==
    (BatchRun /\ pc = "done" /\ failed > 0) =>
        \E a \in 1..Len(artifacts) :
            /\ artifacts[a].name \in FailureLogs
            /\ Len(artifacts[a].content) = Len(failed_items)
            /\ \A k \in 1..Len(failed_items) :
                  /\ artifacts[a].content[k][1] = FailedIds[k]
                  /\ prog = "metadata" =>
                        artifacts[a].content[k] = failed_items[k]

\* C4: a run in which every item succeeded writes no failure log.
C4_NoLogWhenAllSucceed ==
    (BatchRun /\ pc = "done" /\ successful = Len(items)) =>
        ~HasArtifact(FailureLogs)

C4_Witness ==
    /\ prog = "metadata" /\ pc = "done"
    /\ Len(items) = 2 /\ successful = 2
    /\ HasArtifact({"json"})

\* C5: in the probe run an item whose file is missing at its turn is recorded
\* as failed with reason "File not found", the probing tool is not run on it,
\* and the loop goes on.
C5_MissingFileSkipped ==
    (prog = "metadata" /\ last.i > 0 /\ ~last.exists) =>
        /\ pc \in {"loop", "done"}
        /\ last.i \notin Range(tool_calls) \cup in_flight
        /\ failed_items # <<>>
        /\ failed_items[Len(failed_items)] =
              <<basename(items[last.i]), "File not found">>

C5_Witness ==
    /\ prog = "metadata" /\ pc = "done" /\ Len(items) = 3
    /\ tool_calls = <<1, 3>>
    /\ failed_items = << <<basename(items[2]), "File not found">> >>
    /\ successful = 2

BadOutput(res) ==
    /\ ~res.raised
    /\ res.returncode # 0 \/ res.stdout.empty \/ ~res.stdout.valid

\* C6: when the probing tool exits non-zero, or exits zero with empty or
\* non-JSON output, extract_video_metadata returns None without raising and
\* the loop records the item as failed with a reason and goes on.
C6_BadProbeOutputFails ==
    (prog = "metadata" /\ last.out > 0 /\ last.exists
        /\ BadOutput(ProbeOutputs[last.out])) =>
        /\ extract_video_metadata(ProbeOutputs[last.out]) = Returned(None)
        /\ pc \in {"loop", "done"}
        /\ failed_items # <<>>
        /\ failed_items[Len(failed_items)] =
              <<basename(items[last.i]), "Failed to extract metadata">>

C6_Witness ==
    /\ prog = "metadata" /\ pc = "loop" /\ idx = 1 /\ Len(items) = 2
    /\ last.exists /\ last.out > 0
    /\ ~ProbeOutputs[last.out].raised
    /\ ProbeOutputs[last.out].returncode = 0
    /\ ~ProbeOutputs[last.out].stdout.empty
    /\ ~ProbeOutputs[last.out].stdout.valid
    /\ failed = 1

\* C7: when the pre-flight check finds the probing tool missing or failing,
\* the run ends before any item: no scan, no probe, no artifact.
C7_PreflightAborts ==
    (prog = "metadata" /\ preflight \in {"nonzero", "notfound"}) =>
        /\ pc = "exit"
        /\ ~scanned
        /\ items = <<>> /\ idx = 0
        /\ tool_calls = <<>>
        /\ artifacts = <<>>

C7_Witness == prog = "metadata" /\ preflight = "nonzero" /\ pc = "exit"

WaitTime == IF prog = "test" THEN WebWaitTime ELSE VgWaitTime

\* C8 (as claimed): every batch run, the probe run included, has made
\* exactly N-1 delays when it ends.
C8_DelayInEveryRun ==
    (BatchRun /\ pc = "done" /\ Len(items) > 0) =>
        Len(sleeps) = Len(items) - 1

\* C8 (amended): in the two download runs the delays made after k items are
\* exactly those after items 1..min(k, N-1), each of the script's fixed
\* length, whatever the items' outcomes; the probe run makes no delay.
C8_DelayInDownloadRuns ==
    /\ prog \in {"video_generator", "test"} =>
          sleeps = [k \in 1..Min(idx, Len(items) - 1) |-> <<k, WaitTime>>]
    /\ prog = "metadata" => sleeps = <<>>

C8_Witness ==
    /\ prog = "test" /\ pc = "done" /\ Len(items) = 3
    /\ failed = 2 /\ successful = 1
    /\ Len(sleeps) = 2


BothRead == vg_read.done /\ test_read.done

\* what the claim keeps of a column: every value that is present and, once
\* stripped and lower-cased, is not "", "nan" or "none"
ClaimedUrls(cells) ==
    LET kept == SelectSeq(cells, LAMBDA u :
                    u.t # "nan" /\ Lower(Strip(u.s)) \notin StopWords)
    IN  [i \in 1..Len(kept) |-> Strip(Str(kept[i]))]

\* C9: both spreadsheet readers build the list of the values of the chosen
\* column that are not blank, "nan" or "none" (case-insensitively, after
\* stripping), in the original order.
C9_CleanedUrls ==
    /\ (vg_read.done /\ Len(vg_read.columns) = 1) =>
          vg_read.urls = ClaimedUrls(ColumnCells(pattern, vg_read.columns[1]))
    /\ test_read.done =>
          test_read.urls = ClaimedUrls(ColumnCells(pattern, test_read.column))

\* the column the claim selects: the first whose header is "url" ignoring
\* case, else the first column
ClaimedColumn(hdr) ==
    LET hits == {i \in 1..Len(hdr) : Lower(hdr[i]) = UrlText}
    IN  IF hits # {} THEN CHOOSE i \in hits : \A j \in hits : i <= j ELSE 1

\* C10: both readers use the column whose header is "url" ignoring case, or
\* the first column when there is none, and so agree on every set of headers.
C10_UrlColumn ==
    BothRead =>
        /\ vg_read.columns = <<ClaimedColumn(headers)>>
        /\ test_read.column = ClaimedColumn(headers)


DownloadRun == prog \in {"video_generator", "test"}

\* download_video has returned for item last.i
Returned11 == DownloadRun /\ last.i > 0 /\ last.ret # <<>>

\* the tool was started for item last.i and exited with code zero
ExitedZero ==
    /\ last.exists /\ last.out > 0
    /\ ~DownloadOutcomes[last.out].raised
    /\ DownloadOutcomes[last.out].returncode = 0

C12_OneAtATime ==
    BatchRun =>
        /\ Cardinality(in_flight) <= 1
        /\ in_flight \cap Range(tool_calls) = {}
        /\ \A a, b \in DOMAIN tool_calls :
              a < b => tool_calls[a] < tool_calls[b]
        /\ \A t \in Range(tool_calls) : t <= idx
        /\ in_flight # {} =>
              /\ in_flight = {idx + 1}
              /\ successful + failed = idx
              /\ Len(failed_items) = failed

C12_Witness ==
    /\ prog = "video_generator" /\ pc = "running"
    /\ in_flight = {3} /\ tool_calls = <<1, 2>> /\ idx = 2

ReportsWritten == prog = "metadata" /\ pc = "done"

JsonReports == SelectSeq(artifacts, LAMBDA a : a.name = "json")

XlsxReports == SelectSeq(artifacts, LAMBDA a : a.name = "xlsx")

Headers(row) == [c \in 1..Len(row) |-> row[c][1]]

\* every row has the same headers, "Filename" first and "File Path" last
FixedColumns(rows) ==
    \A k \in 1..Len(rows) :
        /\ Headers(rows[k]) = Headers(rows[1])
        /\ rows[k][1][1] = "Filename"
        /\ rows[k][Len(rows[k])][1] = "File Path"

\* C13 (as claimed): the probe run's reports hold one record, and one row,
\* per item result, in item order, with the fixed columns.
C13_ReportPerResult ==
    ReportsWritten =>
        /\ Len(JsonReports) = 1 /\ Len(XlsxReports) = 1
        /\ LET json == JsonReports[1].content
               rows == XlsxReports[1].content
           IN  /\ [k \in 1..Len(json) |-> json[k].filepath] = items
               /\ [k \in 1..Len(rows) |-> rows[k][Len(rows[k])][2]] = items
               /\ FixedColumns(rows)

\* C13 (amended): when some item succeeded, the JSON report is the ordered
\* list of the successful records and the table has one row per successful
\* record in that order, with the fixed columns; failed items are in
\* neither; when no item succeeded neither report is written.
C13_ReportPerSuccess ==
    ReportsWritten =>
        IF all_metadata = <<>>
        THEN JsonReports = <<>> /\ XlsxReports = <<>>
        ELSE /\ Len(JsonReports) = 1 /\ Len(XlsxReports) = 1
             /\ LET json == JsonReports[1].content
                    rows == XlsxReports[1].content
                IN  /\ json = all_metadata
                    /\ Len(json) = successful
                    /\ IsSubseq([k \in 1..Len(json) |-> json[k].filepath], items)
                    /\ \A k \in 1..Len(json) : \A f \in 1..Len(failed_items) :
                          json[k].filename # failed_items[f][1]
                    /\ Len(rows) = Len(json)
                    /\ FixedColumns(rows)
                    /\ \A k \in 1..Len(rows) :
                          /\ rows[k][1][2] = json[k].filename
                          /\ rows[k][Len(rows[k])][2] = json[k].filepath

C13_Witness ==
    /\ ReportsWritten /\ Len(items) = 3
    /\ Len(all_metadata) = 2 /\ failed = 1
    /\ Len(XlsxReports) = 1 /\ Len(XlsxReports[1].content) = 2

\* parse_metadata has returned the record of item last.i
Parsed14 == prog = "metadata" /\ last.out > 0 /\ last.ret = <<TRUE>>

Section(raw, key) == IF key \in DOMAIN raw THEN raw[key] ELSE EmptyDict

FirstStream(raw, t) ==
    LET found == StreamsOfType(Section(raw, "streams"), t)
    IN  IF found = <<>> THEN EmptyDict ELSE found[1]

\* a field read from a key that the probe output lacks has the default
Defaulted(src, key, value, default) == key \notin DOMAIN src => value = default

\* C14: in the record parse_metadata returns, a numeric field is zero and a
\* string field is empty whenever its key is absent from the probe output;
\* so are the video and audio bit rates when the stream has no bit_rate key
\* or when there is no such stream.
C14_AbsentKeysDefault ==
    Parsed14 =>
        LET raw == ProbeOutputs[last.out].stdout.json.d
            rec == all_metadata[Len(all_metadata)]
            fmt == Section(raw, "format")
            video == FirstStream(raw, "video")
            audio == FirstStream(raw, "audio")
        IN  /\ Defaulted(fmt, "size", rec.file_size_bytes, 0)
            /\ Defaulted(fmt, "size", rec.file_size_mb, 0)
            /\ Defaulted(fmt, "duration", rec.duration_seconds, 0)
            /\ Defaulted(fmt, "format_name", rec.format_name, "")
            /\ Defaulted(fmt, "format_long_name", rec.format_long_name, "")
            /\ Defaulted(fmt, "bit_rate", rec.bit_rate, 0)
            /\ Defaulted(video, "codec_name", rec.video_codec, "")
            /\ Defaulted(video, "codec_long_name", rec.video_codec_long, "")
            /\ Defaulted(video, "width", rec.width, 0)
            /\ Defaulted(video, "height", rec.height, 0)
            /\ Defaulted(video, "r_frame_rate", rec.frame_rate, "")
            /\ Defaulted(video, "display_aspect_ratio", rec.aspect_ratio, "")
            /\ Defaulted(video, "pix_fmt", rec.pixel_format, "")
            /\ Defaulted(audio, "codec_name", rec.audio_codec, "")
            /\ Defaulted(audio, "codec_long_name", rec.audio_codec_long, "")
            /\ Defaulted(audio, "channels", rec.audio_channels, 0)
            /\ Defaulted(audio, "channel_layout", rec.audio_channel_layout, "")
            /\ Defaulted(audio, "sample_rate", rec.audio_sample_rate, "")
            /\ Defaulted(video, "bit_rate", rec.video_bitrate, "")
            /\ Defaulted(audio, "bit_rate", rec.audio_bitrate, "")

\* the summary counts agree with the recorded lists
ListsAgree ==
    /\ Len(failed_items) = failed
    /\ prog = "metadata" => Len(all_metadata) = successful

\* C15: while the loop runs, after idx items the counters add up to idx and
\* agree with the lists; a run that has ended has counted every item:
\* successful + failed = N.
C15_CountsAddUp ==
    BatchRun =>
        /\ pc \in {"loop", "running"} => (successful + failed = idx /\ ListsAgree)
        /\ RunEnded => (successful + failed = Len(items) /\ ListsAgree)

\* the run is over without having entered the loop, or after its summary
Finished == pc \in {"exit", "done"}

\* C16: a batch run whose tool invocations all return goes on until it is
\* finished: in every state that is not finished a next step can be taken
\* (an invocation that is running can return), and a run that entered the
\* loop is finished only after every item and the summary step.
C16_RunFinishes ==
    BatchRun =>
        /\ Finished \/ ENABLED Next
        /\ pc = "done" => (idx = Len(items) /\ in_flight = {})

\* C17: in the web interface temp_cookies.txt exists while a download
\* invocation runs, download_complete is set only after the last item, the
\* file is gone once a started run has finished, and no script run ends
\* with the file it wrote still there.
C17_TempCookieRemoved ==
    prog = "test" =>
        /\ in_flight # {} => cookie_exists
        /\ download_complete => (pc = "done" /\ idx = Len(items))
        /\ pc = "done" => ~cookie_exists
        /\ Finished => ~cookie_exists

====
